---- MODULE Spec2Model ----
(***************************************************************************)
(* The preference aggregation and conflict detection of the trip planner:  *)
(* aggregatePreferences(preferences) of                                    *)
(* src/src/routes/(admin)/account/create_profile/+page.ts, lines 53-271,   *)
(* applied to the rows of the preferences table of one trip.               *)
(*                                                                         *)
(* A JSON object is a function from the names of the fields it has to      *)
(* their values; a field that is missing, null or undefined is not in the  *)
(* DOMAIN.  A date string is one of the ISO days of May 2026, the empty    *)
(* string, or a text that is no date.  Times are counted in milliseconds   *)
(* from 2026-05-01T00:00Z; the offset of the epoch cancels in every        *)
(* comparison and in formatting.                                           *)
(***************************************************************************)
EXTENDS Integers, Sequences, FiniteSets, TLC

VARIABLES preferences, result, requests, heap
vars == <<preferences, result, requests, heap>>

(***************************************************************************)
(* Bounds of the model.                                                    *)
(***************************************************************************)
MaxMembers == 2
MaxDay     == 2
MaxBudget  == 2
MaxRequests == 2
MaxGroup == 3

(***************************************************************************)
(* JavaScript values.                                                      *)
(***************************************************************************)
\* null, undefined or {} in the place of a JSON object: p.dates?.x is
\* undefined for every x.
NoFields == [k \in {} |-> 0]

\* o?.f is neither undefined nor null
Has(o, f) == f \in DOMAIN o

\* null in a string-typed slot (no input string equals it)
JsNull == "<null>"

\* Boolean(s) of a string-typed slot
TruthyString(s) == s # "" /\ s # JsNull

\* o?.f || dflt for a string field
StringOr(o, f, dflt) == IF Has(o, f) /\ TruthyString(o[f]) THEN o[f] ELSE dflt

\* o?.f || 0 for a number field
NumberOr(o, f) == IF Has(o, f) /\ o[f] # 0 THEN o[f] ELSE 0

\* o?.f || false for a boolean field
BoolOr(o, f) == Has(o, f) /\ o[f]

\* o?.f || [] for an array field (every array is truthy)
ArrayOr(o, f) == IF Has(o, f) THEN o[f] ELSE <<>>

\* a number that may be NaN
Num(v) == [nan |-> FALSE, v |-> v]
NaN    == [nan |-> TRUE, v |-> 0]

MsPerDay == 86400000

\* "2026-05-DD"
IsoString(d) == IF d < 10 THEN "2026-05-0" \o ToString(d) ELSE "2026-05-" \o ToString(d)
DaysOfMonth  == 1..31

\* Date.parse: the time value of a date-only ISO string is UTC midnight of
\* that day; any other text has no time value.
DateParse(s) ==
    IF \E d \in DaysOfMonth : IsoString(d) = s
    THEN Num(((CHOOSE d \in DaysOfMonth : IsoString(d) = s) - 1) * MsPerDay)
    ELSE NaN

\* Date objects; null where the code keeps null
NullDate == [null |-> TRUE]
NewDate(n) == IF n.nan THEN [valid |-> FALSE, time |-> 0] ELSE [valid |-> TRUE, time |-> n.v]
IsDate(d) == ~ Has(d, "null")
GetTime(d) == IF d.valid THEN Num(d.time) ELSE NaN

\* d.toISOString().split('T')[0]; toISOString throws a RangeError on an
\* Invalid Date, which CanFormat tells.
CanFormat(d) == d.valid
ToISODate(d) == IsoString((d.time \div MsPerDay) + 1)

(***************************************************************************)
(* Array helpers.                                                          *)
(***************************************************************************)
\* xs.map(f) is written [i \in DOMAIN xs |-> f(xs[i])] in place.
Elems(xs) == {xs[i] : i \in DOMAIN xs}

\* xs.includes(x)
Includes(xs, x) == \E i \in DOMAIN xs : xs[i] = x

\* Math.max(...xs) and Math.min(...xs) of a non-empty array of numbers
RECURSIVE MathMax(_)
MathMax(xs) ==
    IF Len(xs) = 1 THEN xs[1]
    ELSE LET m == MathMax(Tail(xs)) IN IF xs[1] >= m THEN xs[1] ELSE m

RECURSIVE MathMin(_)
MathMin(xs) ==
    IF Len(xs) = 1 THEN xs[1]
    ELSE LET m == MathMin(Tail(xs)) IN IF xs[1] <= m THEN xs[1] ELSE m

\* the same over time values: NaN if any argument is NaN
MathMaxTime(ts) ==
    IF \E i \in DOMAIN ts : ts[i].nan THEN NaN
    ELSE Num(MathMax([i \in DOMAIN ts |-> ts[i].v]))

MathMinTime(ts) ==
    IF \E i \in DOMAIN ts : ts[i].nan THEN NaN
    ELSE Num(MathMin([i \in DOMAIN ts |-> ts[i].v]))

\* Array.from(new Set(xs)): the first occurrence of each element, in order
RECURSIVE Dedupe(_)
Dedupe(xs) ==
    IF xs = <<>> THEN <<>>
    ELSE LET front == Dedupe(SubSeq(xs, 1, Len(xs) - 1))
             last  == xs[Len(xs)]
         IN  IF Includes(front, last) THEN front ELSE Append(front, last)

\* Tally with rec[x] = 1 for the increment
Tally_NoIncrement(xs) == [k \in Elems(xs) |-> 1]

\* xs.forEach(x => { rec[x] = (rec[x] || 0) + 1 }) from rec = {}
RECURSIVE Tally(_)
Tally(xs) ==
    IF xs = <<>> THEN NoFields
    ELSE LET rec == Tally(SubSeq(xs, 1, Len(xs) - 1))
             x   == xs[Len(xs)]
         IN  [k \in DOMAIN rec \cup {x} |->
                 IF k = x THEN (IF Has(rec, x) THEN rec[x] ELSE 0) + 1 ELSE rec[k]]

\* the concatenation of an array of arrays
RECURSIVE Flatten(_)
Flatten(xss) == IF xss = <<>> THEN <<>> ELSE xss[1] \o Flatten(Tail(xss))

(***************************************************************************)
(* Field extraction (the four preferences.map calls).                      *)
(***************************************************************************)
\* ExtractDates with new Date(dates?.earliestStart) where the truthiness
\* test is left out: new Date(undefined) is an Invalid Date
ExtractDates_Unguarded(p) ==
    LET dates == p.dates IN
    [ earliestStart |-> IF Has(dates, "earliestStart") /\ TruthyString(dates.earliestStart)
                        THEN NewDate(DateParse(dates.earliestStart)) ELSE NewDate(NaN),
      latestEnd     |-> IF Has(dates, "latestEnd") /\ TruthyString(dates.latestEnd)
                        THEN NewDate(DateParse(dates.latestEnd)) ELSE NewDate(NaN),
      idealDuration |-> StringOr(dates, "idealDuration", JsNull),
      flexible      |-> BoolOr(dates, "flexible") ]

ExtractDates(p) ==
    LET dates == p.dates IN
    [ earliestStart |-> IF Has(dates, "earliestStart") /\ TruthyString(dates.earliestStart)
                        THEN NewDate(DateParse(dates.earliestStart)) ELSE NullDate,
      latestEnd     |-> IF Has(dates, "latestEnd") /\ TruthyString(dates.latestEnd)
                        THEN NewDate(DateParse(dates.latestEnd)) ELSE NullDate,
      idealDuration |-> StringOr(dates, "idealDuration", JsNull),
      flexible      |-> BoolOr(dates, "flexible") ]

\* ExtractBudget with an absent max counting as no upper bound (a value
\* above every budget) for 0
ExtractBudget_OpenMax(p) ==
    LET budget == p.budget IN
    [ min                  |-> NumberOr(budget, "min"),
      max                  |-> IF Has(budget, "max") /\ budget.max # 0 THEN budget.max
                               ELSE MaxBudget + 1,
      includeFlights       |-> BoolOr(budget, "includeFlights"),
      includeAccommodation |-> BoolOr(budget, "includeAccommodation"),
      includeFood          |-> BoolOr(budget, "includeFood"),
      includeActivities    |-> BoolOr(budget, "includeActivities"),
      flexibility          |-> StringOr(budget, "flexibility", "prefer_under") ]

ExtractBudget(p) ==
    LET budget == p.budget IN
    [ min                  |-> NumberOr(budget, "min"),
      max                  |-> NumberOr(budget, "max"),
      includeFlights       |-> BoolOr(budget, "includeFlights"),
      includeAccommodation |-> BoolOr(budget, "includeAccommodation"),
      includeFood          |-> BoolOr(budget, "includeFood"),
      includeActivities    |-> BoolOr(budget, "includeActivities"),
      flexibility          |-> StringOr(budget, "flexibility", "prefer_under") ]

ExtractDestPrefs(p) ==
    LET destPrefs == p.destination_prefs IN
    [ vibes          |-> ArrayOr(destPrefs, "vibes"),
      scope          |-> StringOr(destPrefs, "scope", "either"),
      specificPlaces |-> StringOr(destPrefs, "specificPlaces", ""),
      placesToAvoid  |-> StringOr(destPrefs, "placesToAvoid", "") ]

ExtractConstraints(p) ==
    LET constraints == p.constraints IN
    [ dietary            |-> ArrayOr(constraints, "dietary"),
      otherDietary       |-> StringOr(constraints, "otherDietary", ""),
      accessibility      |-> ArrayOr(constraints, "accessibility"),
      otherAccessibility |-> StringOr(constraints, "otherAccessibility", ""),
      hardNos            |-> StringOr(constraints, "hardNos", "") ]

\* .filter(d => d.earliestStart && d.latestEnd): a Date object is truthy,
\* an Invalid Date too
HasBothDates(d) == IsDate(d.earliestStart) /\ IsDate(d.latestEnd)

AllDates(prefs) == SelectSeq([i \in DOMAIN prefs |-> ExtractDates(prefs[i])], HasBothDates)
AllBudgets(prefs) == [i \in DOMAIN prefs |-> ExtractBudget(prefs[i])]
AllDestPrefs(prefs) == [i \in DOMAIN prefs |-> ExtractDestPrefs(prefs[i])]
AllConstraints(prefs) == [i \in DOMAIN prefs |-> ExtractConstraints(prefs[i])]

(***************************************************************************)
(* Date window (lines 102-114).                                            *)
(***************************************************************************)
\* CommonStart with Math.min for Math.max
CommonStart_UsesMin(allDates) ==
    IF Len(allDates) > 0
    THEN NewDate(MathMinTime([i \in DOMAIN allDates |-> GetTime(allDates[i].earliestStart)]))
    ELSE NullDate

\* latest of all earliest starts; null when nobody stated both dates
CommonStart(allDates) ==
    IF Len(allDates) > 0
    THEN NewDate(MathMaxTime([i \in DOMAIN allDates |-> GetTime(allDates[i].earliestStart)]))
    ELSE NullDate

\* CommonEnd as the latest end of the first member who stated both dates
CommonEnd_First(allDates) ==
    IF Len(allDates) > 0
    THEN NewDate(GetTime(allDates[1].latestEnd))
    ELSE NullDate

\* earliest of all latest ends
CommonEnd(allDates) ==
    IF Len(allDates) > 0
    THEN NewDate(MathMinTime([i \in DOMAIN allDates |-> GetTime(allDates[i].latestEnd)]))
    ELSE NullDate

\* HasDateOverlap with < for <=
HasDateOverlap_Strict(commonStart, commonEnd) ==
    /\ IsDate(commonStart)
    /\ IsDate(commonEnd)
    /\ commonStart.valid /\ commonEnd.valid
    /\ commonStart.time < commonEnd.time

\* commonStart && commonEnd && commonStart <= commonEnd; a comparison with
\* an Invalid Date is false
HasDateOverlap(commonStart, commonEnd) ==
    /\ IsDate(commonStart)
    /\ IsDate(commonEnd)
    /\ commonStart.valid /\ commonEnd.valid
    /\ commonStart.time <= commonEnd.time

IsTruthyLabel(s) == TruthyString(s)

\* IdealDurations without the Set
IdealDurations_NoSet(allDates) ==
    SelectSeq([i \in DOMAIN allDates |-> allDates[i].idealDuration], IsTruthyLabel)

IdealDurations(allDates) ==
    Dedupe(SelectSeq([i \in DOMAIN allDates |-> allDates[i].idealDuration], IsTruthyLabel))

(***************************************************************************)
(* Budget band (lines 130-146).                                            *)
(***************************************************************************)
\* MinOfMaxBudgets with Math.max for Math.min
MinOfMaxBudgets_UsesMax(allBudgets) == MathMax([i \in DOMAIN allBudgets |-> allBudgets[i].max])

MinOfMaxBudgets(allBudgets) == MathMin([i \in DOMAIN allBudgets |-> allBudgets[i].max])
\* MaxOfMinBudgets with Math.min for Math.max
MaxOfMinBudgets_UsesMin(allBudgets) == MathMin([i \in DOMAIN allBudgets |-> allBudgets[i].min])

MaxOfMinBudgets(allBudgets) == MathMax([i \in DOMAIN allBudgets |-> allBudgets[i].min])

\* HasBudgetOverlap with < for <=
HasBudgetOverlap_Strict(allBudgets) == MaxOfMinBudgets(allBudgets) < MinOfMaxBudgets(allBudgets)

HasBudgetOverlap(allBudgets) == MaxOfMinBudgets(allBudgets) <= MinOfMaxBudgets(allBudgets)

\* CommonInclusions with some for every
CommonInclusions_Some(allBudgets) ==
    (IF \E i \in DOMAIN allBudgets : allBudgets[i].includeFlights THEN <<"Flights">> ELSE <<>>)
    \o (IF \E i \in DOMAIN allBudgets : allBudgets[i].includeAccommodation
        THEN <<"Accommodation">> ELSE <<>>)
    \o (IF \E i \in DOMAIN allBudgets : allBudgets[i].includeFood THEN <<"Food">> ELSE <<>>)
    \o (IF \E i \in DOMAIN allBudgets : allBudgets[i].includeActivities
        THEN <<"Activities">> ELSE <<>>)

CommonInclusions(allBudgets) ==
    (IF \A i \in DOMAIN allBudgets : allBudgets[i].includeFlights THEN <<"Flights">> ELSE <<>>)
    \o (IF \A i \in DOMAIN allBudgets : allBudgets[i].includeAccommodation
        THEN <<"Accommodation">> ELSE <<>>)
    \o (IF \A i \in DOMAIN allBudgets : allBudgets[i].includeFood THEN <<"Food">> ELSE <<>>)
    \o (IF \A i \in DOMAIN allBudgets : allBudgets[i].includeActivities
        THEN <<"Activities">> ELSE <<>>)

FlexibilityLevels(allBudgets) == Tally([i \in DOMAIN allBudgets |-> allBudgets[i].flexibility])

(***************************************************************************)
(* Vibes, scopes and places (lines 159-186).                               *)
(***************************************************************************)
\* CommonVibes with some for every
CommonVibes_Some(allDestPrefs) ==
    IF Len(allDestPrefs) > 0
    THEN LET InSome(vibe) == \E i \in DOMAIN allDestPrefs : Includes(allDestPrefs[i].vibes, vibe)
         IN  SelectSeq(allDestPrefs[1].vibes, InSome)
    ELSE <<>>

\* CommonVibes with length > 1 for length > 0
CommonVibes_NeedsTwo(allDestPrefs) ==
    IF Len(allDestPrefs) > 1
    THEN LET InAll(vibe) == \A i \in DOMAIN allDestPrefs : Includes(allDestPrefs[i].vibes, vibe)
         IN  SelectSeq(allDestPrefs[1].vibes, InAll)
    ELSE <<>>

\* the first member's vibes that every member includes
CommonVibes(allDestPrefs) ==
    IF Len(allDestPrefs) > 0
    THEN LET InAll(vibe) == \A i \in DOMAIN allDestPrefs : Includes(allDestPrefs[i].vibes, vibe)
         IN  SelectSeq(allDestPrefs[1].vibes, InAll)
    ELSE <<>>

\* AllVibes with the first member left out of the union
AllVibes_SkipFirst(allDestPrefs) ==
    Dedupe(Flatten(Tail([i \in DOMAIN allDestPrefs |-> allDestPrefs[i].vibes])))

\* AllVibes without the Set
AllVibes_NoSet(allDestPrefs) == Flatten([i \in DOMAIN allDestPrefs |-> allDestPrefs[i].vibes])

AllVibes(allDestPrefs) == Dedupe(Flatten([i \in DOMAIN allDestPrefs |-> allDestPrefs[i].vibes]))

PopularScopes(allDestPrefs) == Tally([i \in DOMAIN allDestPrefs |-> allDestPrefs[i].scope])

SpecificPlaces(allDestPrefs) ==
    SelectSeq([i \in DOMAIN allDestPrefs |-> allDestPrefs[i].specificPlaces], IsTruthyLabel)

PlacesToAvoid(allDestPrefs) ==
    SelectSeq([i \in DOMAIN allDestPrefs |-> allDestPrefs[i].placesToAvoid], IsTruthyLabel)

(***************************************************************************)
(* Constraints (lines 200-219).                                            *)
(***************************************************************************)
\* Dietary without the otherDietary texts
Dietary_TagsOnly(allConstraints) ==
    Dedupe(Flatten([i \in DOMAIN allConstraints |-> allConstraints[i].dietary]))

Dietary(allConstraints) ==
    Dedupe(Flatten([i \in DOMAIN allConstraints |->
        allConstraints[i].dietary
        \o (IF TruthyString(allConstraints[i].otherDietary)
            THEN <<allConstraints[i].otherDietary>> ELSE <<>>)]))

Accessibility(allConstraints) ==
    Dedupe(Flatten([i \in DOMAIN allConstraints |->
        allConstraints[i].accessibility
        \o (IF TruthyString(allConstraints[i].otherAccessibility)
            THEN <<allConstraints[i].otherAccessibility>> ELSE <<>>)]))

\* HardNos collected through a Set, as dietary and accessibility are
HardNos_Deduped(allConstraints) ==
    Dedupe(SelectSeq([i \in DOMAIN allConstraints |-> allConstraints[i].hardNos], IsTruthyLabel))

HardNos(allConstraints) ==
    SelectSeq([i \in DOMAIN allConstraints |-> allConstraints[i].hardNos], IsTruthyLabel)

(***************************************************************************)
(* Conflict detection (lines 221-240).                                     *)
(***************************************************************************)
DateConflictText   == "No overlapping dates between all members"
BudgetConflictText == "Budget ranges don't overlap"
VibeConflictText   == "No common vibes selected by all members"

NoDateOverlap(hasDateOverlap, allDates) == ~ hasDateOverlap /\ Len(allDates) > 0

NoBudgetOverlap(hasBudgetOverlap, allBudgets) == ~ hasBudgetOverlap /\ Len(allBudgets) > 0

\* NoCommonVibes raised as soon as anybody chose a vibe
NoCommonVibes_AnyVibe(commonVibes, allVibes) == Len(allVibes) > 0

NoCommonVibes(commonVibes, allVibes) == Len(commonVibes) = 0 /\ Len(allVibes) > 0

\* ConflictDetails with the budget text pushed before the date text
ConflictDetails_BudgetFirst(noDateOverlap, noBudgetOverlap, noCommonVibes) ==
    (IF noBudgetOverlap THEN <<BudgetConflictText>> ELSE <<>>)
    \o (IF noDateOverlap THEN <<DateConflictText>> ELSE <<>>)
    \o (IF noCommonVibes THEN <<VibeConflictText>> ELSE <<>>)

\* the three pushes onto conflicts.details
ConflictDetails(noDateOverlap, noBudgetOverlap, noCommonVibes) ==
    (IF noDateOverlap THEN <<DateConflictText>> ELSE <<>>)
    \o (IF noBudgetOverlap THEN <<BudgetConflictText>> ELSE <<>>)
    \o (IF noCommonVibes THEN <<VibeConflictText>> ELSE <<>>)

\* HasConflicts with length > 1 for length > 0
HasConflicts_MoreThanOne(details) == Len(details) > 1

HasConflicts(details) == Len(details) > 0

DetectConflicts(hasDateOverlap, allDates, hasBudgetOverlap, allBudgets, commonVibes, allVibes) ==
    LET noDateOverlap   == NoDateOverlap(hasDateOverlap, allDates)
        noBudgetOverlap == NoBudgetOverlap(hasBudgetOverlap, allBudgets)
        noCommonVibes   == NoCommonVibes(commonVibes, allVibes)
        details         == ConflictDetails(noDateOverlap, noBudgetOverlap, noCommonVibes)
    IN  [ hasConflicts    |-> HasConflicts(details),
          noDateOverlap   |-> noDateOverlap,
          noBudgetOverlap |-> noBudgetOverlap,
          noCommonVibes   |-> noCommonVibes,
          details         |-> details ]

(***************************************************************************)
(* The orchestrator (lines 53-89 and 242-270).                             *)
(***************************************************************************)
\* the profile returned for preferences.length === 0
EmptyDates ==
    [ earliestCommonStart |-> JsNull,
      latestCommonEnd     |-> JsNull,
      commonWindow        |-> NoFields,
      idealDurations      |-> <<>> ]

EmptyBudget ==
    [ minBudget         |-> 0,
      maxBudget         |-> 0,
      commonInclusions  |-> <<>>,
      flexibilityLevels |-> NoFields ]

EmptyDestination ==
    [ commonVibes    |-> <<>>,
      allVibes       |-> <<>>,
      popularScopes  |-> NoFields,
      specificPlaces |-> <<>>,
      placesToAvoid  |-> <<>> ]

EmptyConstraints ==
    [ dietary       |-> <<>>,
      accessibility |-> <<>>,
      hardNos       |-> <<>> ]

\* EmptyConflicts with "no dates" reported as "no date overlap"
EmptyConflicts_NoDataIsConflict ==
    [ hasConflicts    |-> TRUE,
      noDateOverlap   |-> TRUE,
      noBudgetOverlap |-> FALSE,
      noCommonVibes   |-> FALSE,
      details         |-> <<DateConflictText>> ]

EmptyConflicts ==
    [ hasConflicts    |-> FALSE,
      noDateOverlap   |-> FALSE,
      noBudgetOverlap |-> FALSE,
      noCommonVibes   |-> FALSE,
      details         |-> <<>> ]

EmptyProfile ==
    [ dates       |-> EmptyDates,
      budget      |-> EmptyBudget,
      destination |-> EmptyDestination,
      constraints |-> EmptyConstraints,
      conflicts   |-> EmptyConflicts ]

Returned(profile) == [status |-> "returned", value |-> profile]
Threw(name)       == [status |-> "threw", error |-> name]

\* the dates part of the return statement: toISOString is called on
\* commonStart and commonEnd whenever they are not null
DatesThrow(commonStart, commonEnd) ==
    \/ IsDate(commonStart) /\ ~ CanFormat(commonStart)
    \/ IsDate(commonEnd) /\ ~ CanFormat(commonEnd)

\* DatesOut with the window given whenever both ends are set
DatesOut_WindowWithoutOverlap(commonStart, commonEnd, hasDateOverlap, idealDurations) ==
    [ earliestCommonStart |-> IF IsDate(commonStart) THEN ToISODate(commonStart) ELSE JsNull,
      latestCommonEnd     |-> IF IsDate(commonEnd) THEN ToISODate(commonEnd) ELSE JsNull,
      commonWindow        |-> IF IsDate(commonStart) /\ IsDate(commonEnd)
                              THEN [start |-> ToISODate(commonStart), end |-> ToISODate(commonEnd)]
                              ELSE NoFields,
      idealDurations      |-> idealDurations ]

DatesOut(commonStart, commonEnd, hasDateOverlap, idealDurations) ==
    [ earliestCommonStart |-> IF IsDate(commonStart) THEN ToISODate(commonStart) ELSE JsNull,
      latestCommonEnd     |-> IF IsDate(commonEnd) THEN ToISODate(commonEnd) ELSE JsNull,
      commonWindow        |-> IF hasDateOverlap /\ IsDate(commonStart) /\ IsDate(commonEnd)
                              THEN [start |-> ToISODate(commonStart), end |-> ToISODate(commonEnd)]
                              ELSE NoFields,
      idealDurations      |-> idealDurations ]

aggregatePreferences(prefs) ==
    IF Len(prefs) = 0 THEN Returned(EmptyProfile)
    ELSE
    LET allDates         == AllDates(prefs)
        commonStart      == CommonStart(allDates)
        commonEnd        == CommonEnd(allDates)
        hasDateOverlap   == HasDateOverlap(commonStart, commonEnd)
        idealDurations   == IdealDurations(allDates)
        allBudgets       == AllBudgets(prefs)
        hasBudgetOverlap == HasBudgetOverlap(allBudgets)
        allDestPrefs     == AllDestPrefs(prefs)
        commonVibes      == CommonVibes(allDestPrefs)
        allVibes         == AllVibes(allDestPrefs)
        allConstraints   == AllConstraints(prefs)
        conflicts        == DetectConflicts(hasDateOverlap, allDates, hasBudgetOverlap,
                                            allBudgets, commonVibes, allVibes)
    IN  IF DatesThrow(commonStart, commonEnd) THEN Threw("RangeError")
        ELSE Returned(
          [ dates |-> DatesOut(commonStart, commonEnd, hasDateOverlap, idealDurations),
            budget |-> [ minBudget         |-> MaxOfMinBudgets(allBudgets),
                         maxBudget         |-> MinOfMaxBudgets(allBudgets),
                         commonInclusions  |-> CommonInclusions(allBudgets),
                         flexibilityLevels |-> FlexibilityLevels(allBudgets) ],
            destination |-> [ commonVibes    |-> commonVibes,
                              allVibes       |-> allVibes,
                              popularScopes  |-> PopularScopes(allDestPrefs),
                              specificPlaces |-> SpecificPlaces(allDestPrefs),
                              placesToAvoid  |-> PlacesToAvoid(allDestPrefs) ],
            constraints |-> [ dietary       |-> Dietary(allConstraints),
                              accessibility |-> Accessibility(allConstraints),
                              hardNos       |-> HardNos(allConstraints) ],
            conflicts |-> conflicts ])

(***************************************************************************)
(* The dashboard component (AggregatedPreferences.svelte): what the Date   *)
(* Window panel and the vibes panel show for a profile.                    *)
(***************************************************************************)
OverlapFound    == "Overlap Found"
NoOverlapShown  == "No overlap between all members"
NoDatesYet      == "No date preferences submitted yet"

\* DateWindowPanel with the test of the two ends placed first
DateWindowPanel_EndsFirst(aggregated) ==
    IF /\ TruthyString(aggregated.dates.earliestCommonStart)
       /\ TruthyString(aggregated.dates.latestCommonEnd)
    THEN NoOverlapShown
    ELSE IF aggregated.dates.commonWindow # NoFields THEN OverlapFound
    ELSE NoDatesYet

\* {#if commonWindow} {:else if earliestCommonStart && latestCommonEnd} {:else}
DateWindowPanel(aggregated) ==
    IF aggregated.dates.commonWindow # NoFields THEN OverlapFound
    ELSE IF /\ TruthyString(aggregated.dates.earliestCommonStart)
            /\ TruthyString(aggregated.dates.latestCommonEnd)
         THEN NoOverlapShown
    ELSE NoDatesYet

CommonToAll         == "Common to All"
SomeOverlapInfo     == "No vibes selected by all members, but some overlap exists"
AllSelectedOnly     == "All Selected"
NoDestinationsYet   == "No destination preferences submitted yet"

\* VibesPanel with the info shown when noCommonVibes is set
VibesPanel_InfoOnConflict(aggregated) ==
    IF Len(aggregated.destination.allVibes) > 0
    THEN IF Len(aggregated.destination.commonVibes) > 0 THEN CommonToAll
         ELSE IF aggregated.conflicts.noCommonVibes THEN SomeOverlapInfo
         ELSE AllSelectedOnly
    ELSE NoDestinationsYet

\* what stands above the "All Selected" list: the common vibes, the info
\* alert, or nothing; without any vibe the panel has one sentence
VibesPanel(aggregated) ==
    IF Len(aggregated.destination.allVibes) > 0
    THEN IF Len(aggregated.destination.commonVibes) > 0 THEN CommonToAll
         ELSE IF ~ aggregated.conflicts.noCommonVibes THEN SomeOverlapInfo
         ELSE AllSelectedOnly
    ELSE NoDestinationsYet

(***************************************************************************)
(* The rows a member can have stored (DatabaseDefinitions.ts: the four     *)
(* JSON columns of a preferences row).                                     *)
(***************************************************************************)
Days == 1..MaxDay
BadDateText == "next spring"

\* the record r without the fields whose value is the marker "-"
Missing == "-"
Fields(r) == LET keep == {k \in DOMAIN r : r[k] # Missing} IN [k \in keep |-> r[k]]

DateTexts == {IsoString(d) : d \in Days} \cup {BadDateText}

DatesValues ==
    {NoFields}
    \cup { Fields([earliestStart |-> s, latestEnd |-> e, idealDuration |-> "2-3-days"]) :
             s \in DateTexts \cup {Missing}, e \in DateTexts \cup {Missing} }
    \cup { [earliestStart |-> "", latestEnd |-> IsoString(1), idealDuration |-> "1-week"],
           [earliestStart |-> IsoString(1), latestEnd |-> IsoString(MaxDay), flexible |-> TRUE],
           [earliestStart |-> IsoString(1), latestEnd |-> IsoString(MaxDay),
            idealDuration |-> "1-week", flexible |-> FALSE],
           [idealDuration |-> ""] }

BudgetValues ==
    {NoFields}
    \cup { [k \in {"min"} |-> lo] : lo \in 0..MaxBudget }
    \cup { [k \in {"max"} |-> hi] : hi \in 1..MaxBudget }
    \cup { [min |-> lo, max |-> hi] : lo \in 0..MaxBudget, hi \in 1..MaxBudget }
    \cup { [min |-> 1, max |-> MaxBudget, includeFlights |-> TRUE, includeAccommodation |-> TRUE,
            includeFood |-> TRUE, includeActivities |-> TRUE, flexibility |-> "hard_limit"],
           [min |-> 1, max |-> MaxBudget, includeFlights |-> TRUE, includeAccommodation |-> FALSE,
            includeFood |-> TRUE, includeActivities |-> FALSE, flexibility |-> "prefer_under"],
           [min |-> 1, max |-> MaxBudget, includeFlights |-> TRUE, includeFood |-> TRUE,
            flexibility |-> ""] }

DestValues ==
    {NoFields}
    \cup { [k \in {"vibes"} |-> v] :
             v \in {<<>>, <<"beach">>, <<"city">>, <<"beach", "city">>, <<"city", "beach">>,
                    <<"beach", "beach">>} }
    \cup { [vibes |-> <<"beach">>, scope |-> "domestic", specificPlaces |-> "Lisbon"],
           [scope |-> "international", placesToAvoid |-> "Las Vegas", specificPlaces |-> ""] }

ConstraintsValues ==
    { NoFields,
      [dietary |-> <<"Vegan">>, hardNos |-> "No camping"],
      [dietary |-> <<"Vegan", "Other">>, otherDietary |-> "No pork",
       accessibility |-> <<"Mobility Assistance">>],
      [dietary |-> <<"Other">>, otherDietary |-> "Vegan", otherAccessibility |-> "Ground floor",
       hardNos |-> "No camping"],
      [accessibility |-> <<"Mobility Assistance", "Other">>, otherAccessibility |-> "",
       hardNos |-> ""],
      [otherDietary |-> "No pork", hardNos |-> "No cruises"] }

Row(d, b, v, c) == [dates |-> d, budget |-> b, destination_prefs |-> v, constraints |-> c]

\* members who answered the three questions that can conflict
FullDates   == { [earliestStart |-> IsoString(d), latestEnd |-> IsoString(d),
                  idealDuration |-> "2-3-days", flexible |-> FALSE] : d \in {1, MaxDay} }
FullBudgets == { [min |-> a, max |-> a, includeFlights |-> TRUE, includeAccommodation |-> TRUE,
                  includeFood |-> FALSE, includeActivities |-> FALSE,
                  flexibility |-> "no_limit"] : a \in {1, MaxBudget} }
FullDests   == { [vibes |-> <<v>>, scope |-> "either"] : v \in {"beach", "city"} }

\* a row answers one question in every way the model has, or the three
\* conflicting questions together
Members ==
    { Row(d, NoFields, NoFields, NoFields) : d \in DatesValues }
    \cup { Row(NoFields, b, NoFields, NoFields) : b \in BudgetValues }
    \cup { Row(NoFields, NoFields, v, NoFields) : v \in DestValues }
    \cup { Row(NoFields, NoFields, NoFields, c) : c \in ConstraintsValues }
    \cup { Row(d, b, v, NoFields) : d \in FullDates, b \in FullBudgets, v \in FullDests }

(***************************************************************************)
(* The state machine: rows are stored, and the dashboard aggregates the    *)
(* rows it finds.                                                          *)
(***************************************************************************)
NoResult == [status |-> "none"]

\* the requests in flight: where each one is, the rows it loaded, and the
\* object its call returned (an index into the heap of allocated profiles)
Requests == 1..MaxRequests
NoRef == 0
IdleRequest == [pc |-> "idle", snapshot |-> <<>>, ref |-> NoRef]

Init ==
    /\ preferences = <<>>
    /\ result = NoResult
    /\ requests = [r \in Requests |-> IdleRequest]
    /\ heap = <<>>

\* a row is inserted into the preferences table of the trip (each JSON
\* column defaults to '{}'); the dashboard data is then loaded anew
InsertRow(p) ==
    /\ Len(preferences) < MaxMembers
    /\ preferences' = Append(preferences, p)
    /\ result' = NoResult
    /\ UNCHANGED <<requests, heap>>

\* Aggregate with the defaulted budget bounds written back into the rows
\* (p.budget = {min, max} in place of a local object)
Aggregate_WritesDefaults ==
    /\ result = NoResult
    /\ result' = aggregatePreferences(preferences)
    /\ preferences' = [i \in DOMAIN preferences |->
                          [preferences[i] EXCEPT !.budget = [min |-> NumberOr(@, "min"),
                                                             max |-> NumberOr(@, "max")]]]
    /\ UNCHANGED <<requests, heap>>

\* one call of aggregatePreferences on the rows of the trip
Aggregate ==
    /\ result = NoResult
    /\ result' = aggregatePreferences(preferences)
    /\ UNCHANGED <<preferences, requests, heap>>

Next ==
    \/ \E p \in Members : InsertRow(p)
    \/ Aggregate

Spec == Init /\ [][Next]_vars

TypeOK ==
    /\ preferences \in Seq(Members)
    /\ Len(preferences) <= MaxMembers \/ Len(preferences) <= MaxGroup
    /\ result.status \in {"none", "returned", "threw"}
    /\ \A r \in Requests :
          /\ requests[r].pc \in {"idle", "loaded", "done", "failed"}
          /\ requests[r].ref \in {NoRef} \cup DOMAIN heap
    /\ Len(heap) <= MaxRequests

(***************************************************************************)
(* Several requests at once.  A request awaits the rows of the trip and    *)
(* then calls aggregatePreferences on them; the call is synchronous, so    *)
(* requests interleave at the awaits, and rows may be inserted in between. *)
(***************************************************************************)
\* the rows the requests find: no answer at all, a malformed date, or the
\* three conflicting questions answered
RequestRows ==
    { Row(NoFields, NoFields, NoFields, NoFields),
      Row([earliestStart |-> BadDateText, latestEnd |-> IsoString(1),
           idealDuration |-> "2-3-days"], NoFields, NoFields, NoFields) }
    \cup { Row(d, b, v, NoFields) : d \in FullDates, b \in FullBudgets, v \in FullDests }

\* request r awaits the select on the preferences table
LoadPreferences(r) ==
    /\ requests[r].pc = "idle"
    /\ requests' = [requests EXCEPT ![r].pc = "loaded", ![r].snapshot = preferences]
    /\ UNCHANGED <<preferences, result, heap>>

\* return of an object that is already there when an equal one exists
Allocate_Interned(h, profile) ==
    IF \E i \in DOMAIN h : h[i] = profile
    THEN [heap |-> h, ref |-> CHOOSE i \in DOMAIN h : h[i] = profile]
    ELSE [heap |-> Append(h, profile), ref |-> Len(h) + 1]

\* return { ... }: the object literal is a new object on every evaluation
Allocate(h, profile) == [heap |-> Append(h, profile), ref |-> Len(h) + 1]

\* request r calls aggregatePreferences on the rows it loaded
Invoke(r) ==
    LET out == aggregatePreferences(requests[r].snapshot)
        new == Allocate(heap, out.value)
    IN  /\ requests[r].pc = "loaded"
        /\ IF out.status = "returned"
           THEN /\ heap' = new.heap
                /\ requests' = [requests EXCEPT ![r].pc = "done", ![r].ref = new.ref]
           ELSE /\ requests' = [requests EXCEPT ![r].pc = "failed"]
                /\ UNCHANGED heap
        /\ UNCHANGED <<preferences, result>>

NextRequests ==
    \/ \E p \in RequestRows : InsertRow(p)
    \/ \E r \in Requests : LoadPreferences(r)
    \/ \E r \in Requests : Invoke(r)

SpecRequests == Init /\ [][NextRequests]_vars

(***************************************************************************)
(* A larger group.  Its members answered the three questions that can      *)
(* conflict, or left everything open, or gave a window that ends before it *)
(* starts, or a malformed date.                                            *)
(***************************************************************************)
GroupRows ==
    RequestRows
    \cup { Row([earliestStart |-> IsoString(MaxDay), latestEnd |-> IsoString(1),
                idealDuration |-> "2-3-days"], NoFields, NoFields, NoFields) }

\* a row of a member of the larger group is inserted
InsertGroupRow(p) ==
    /\ Len(preferences) < MaxGroup
    /\ preferences' = Append(preferences, p)
    /\ result' = NoResult
    /\ UNCHANGED <<requests, heap>>

NextGroup ==
    \/ \E p \in GroupRows : InsertGroupRow(p)
    \/ Aggregate

SpecGroup == Init /\ [][NextGroup]_vars

(***************************************************************************)
(* What the members stated, read off the stored rows directly.             *)
(***************************************************************************)
Returns == result.status = "returned"
Out     == result.value

\* the member stated a value for the text field f of the object o
Stated(o, f) == Has(o, f) /\ o[f] # ""

IsIsoDay(s) == \E d \in DaysOfMonth : IsoString(d) = s
DayOf(s)    == CHOOSE d \in DaysOfMonth : IsoString(d) = s

\* the members who supplied both an earliest start and a latest end
DateSuppliers ==
    {i \in DOMAIN preferences :
        Stated(preferences[i].dates, "earliestStart") /\ Stated(preferences[i].dates, "latestEnd")}

\* every date a member stated denotes a date
DatesWellFormed ==
    \A i \in DOMAIN preferences : \A f \in {"earliestStart", "latestEnd"} :
        Stated(preferences[i].dates, f) => IsIsoDay(preferences[i].dates[f])

BudgetSuppliers == {i \in DOMAIN preferences : preferences[i].budget # NoFields}

\* a member's budget bound, an absent one counting as 0
BoundOf(i, f) == IF Has(preferences[i].budget, f) THEN preferences[i].budget[f] ELSE 0

VibeSet(i) ==
    IF Has(preferences[i].destination_prefs, "vibes")
    THEN Elems(preferences[i].destination_prefs.vibes) ELSE {}

VibeUnion        == UNION {VibeSet(i) : i \in DOMAIN preferences}
VibeIntersection == {v \in VibeUnion : \A i \in DOMAIN preferences : v \in VibeSet(i)}
VibeSuppliers    == {i \in DOMAIN preferences : VibeSet(i) # {}}

(***************************************************************************)
(* C1: for every non-empty preference list the returned budget band has    *)
(* minBudget <= maxBudget exactly when noBudgetOverlap is false; an        *)
(* inverted band always comes with noBudgetOverlap = true.                 *)
(***************************************************************************)
C1_BandAgreesWithFlag ==
    (Returns /\ Len(preferences) > 0) =>
        /\ (Out.budget.minBudget <= Out.budget.maxBudget) <=> ~ Out.conflicts.noBudgetOverlap
        /\ (Out.budget.minBudget > Out.budget.maxBudget) => Out.conflicts.noBudgetOverlap

C1_Witness ==
    /\ Returns
    /\ Len(preferences) = 2
    /\ Out.budget.minBudget > Out.budget.maxBudget
    /\ Out.conflicts.noBudgetOverlap

(***************************************************************************)
(* C2: for every input list, empty or not, hasConflicts is the disjunction *)
(* of the three conflict flags, and it is true exactly when details is     *)
(* non-empty.                                                              *)
(***************************************************************************)
C2_HasConflictsIsDisjunction ==
    Returns =>
        /\ Out.conflicts.hasConflicts =
              (\/ Out.conflicts.noDateOverlap
               \/ Out.conflicts.noBudgetOverlap
               \/ Out.conflicts.noCommonVibes)
        /\ Out.conflicts.hasConflicts <=> (Out.conflicts.details # <<>>)

C2_Witness ==
    /\ Returns
    /\ Out.conflicts.hasConflicts
    /\ Out.conflicts.noCommonVibes
    /\ ~ Out.conflicts.noDateOverlap
    /\ ~ Out.conflicts.noBudgetOverlap
    /\ Len(Out.conflicts.details) = 1

(***************************************************************************)
(* C3: every element of commonVibes is an element of allVibes.             *)
(***************************************************************************)
C3_CommonWithinAll ==
    Returns => Elems(Out.destination.commonVibes) \subseteq Elems(Out.destination.allVibes)

C3_Witness ==
    /\ Returns
    /\ Len(preferences) = 2
    /\ Out.destination.commonVibes # <<>>
    /\ Elems(Out.destination.commonVibes) # Elems(Out.destination.allVibes)

(***************************************************************************)
(* C4 as stated: in a list of any length in which exactly one member       *)
(* supplied a non-empty vibe set, commonVibes equals allVibes as a set.    *)
(***************************************************************************)
C4_Original ==
    (Returns /\ Cardinality(VibeSuppliers) = 1) =>
        Elems(Out.destination.commonVibes) = Elems(Out.destination.allVibes)

(***************************************************************************)
(* C4 amended: when exactly one member supplied a non-empty vibe set,      *)
(* commonVibes equals allVibes as a set if that member is the only member  *)
(* of the list; if the list has further members, who supplied no vibes,    *)
(* commonVibes is empty and allVibes is the supplier's vibe set.           *)
(***************************************************************************)
C4_SingleSupplier ==
    (Returns /\ Cardinality(VibeSuppliers) = 1) =>
        LET i == CHOOSE j \in VibeSuppliers : TRUE IN
        /\ Elems(Out.destination.allVibes) = VibeSet(i)
        /\ Len(preferences) = 1 => Elems(Out.destination.commonVibes) = VibeSet(i)
        /\ Len(preferences) > 1 => Out.destination.commonVibes = <<>>

C4_Witness ==
    /\ Returns
    /\ Len(preferences) = 1
    /\ Cardinality(VibeSuppliers) = 1
    /\ Cardinality(Elems(Out.destination.commonVibes)) = 2

(***************************************************************************)
(* C5: on the empty list the call returns, without an error, the fully     *)
(* defaulted profile: null dates, no durations, a 0..0 budget, every list  *)
(* and tally empty, the four flags false and no details.                   *)
(***************************************************************************)
C5_EmptyListDefaults ==
    (preferences = <<>> /\ result # NoResult) =>
        /\ result.status = "returned"
        /\ Out.dates.earliestCommonStart = JsNull
        /\ Out.dates.latestCommonEnd = JsNull
        /\ Out.dates.commonWindow = NoFields
        /\ Out.dates.idealDurations = <<>>
        /\ Out.budget.minBudget = 0
        /\ Out.budget.maxBudget = 0
        /\ Out.budget.commonInclusions = <<>>
        /\ DOMAIN Out.budget.flexibilityLevels = {}
        /\ Out.destination.commonVibes = <<>>
        /\ Out.destination.allVibes = <<>>
        /\ DOMAIN Out.destination.popularScopes = {}
        /\ Out.destination.specificPlaces = <<>>
        /\ Out.destination.placesToAvoid = <<>>
        /\ Out.constraints.dietary = <<>>
        /\ Out.constraints.accessibility = <<>>
        /\ Out.constraints.hardNos = <<>>
        /\ ~ Out.conflicts.hasConflicts
        /\ ~ Out.conflicts.noDateOverlap
        /\ ~ Out.conflicts.noBudgetOverlap
        /\ ~ Out.conflicts.noCommonVibes
        /\ Out.conflicts.details = <<>>

C5_Witness == preferences = <<>> /\ Returns

(***************************************************************************)
(* C6: absent or null sub-objects and fields never make the call throw:    *)
(* when every date that was stated denotes a date, the call returns a      *)
(* profile, and each absent field was replaced by its neutral default      *)
(* (null date, 0 budget bound, false inclusion flag, empty vibe or tag     *)
(* set, empty text).                                                       *)
(***************************************************************************)
InclusionFlags == {"includeFlights", "includeAccommodation", "includeFood", "includeActivities"}

DefaultsSubstituted(p) ==
    /\ \A f \in {"earliestStart", "latestEnd"} :
          ~ Has(p.dates, f) => ExtractDates(p)[f] = NullDate
    /\ \A f \in {"min", "max"} : ~ Has(p.budget, f) => ExtractBudget(p)[f] = 0
    /\ \A f \in InclusionFlags : ~ Has(p.budget, f) => ExtractBudget(p)[f] = FALSE
    /\ ~ Has(p.destination_prefs, "vibes") => ExtractDestPrefs(p).vibes = <<>>
    /\ \A f \in {"specificPlaces", "placesToAvoid"} :
          ~ Has(p.destination_prefs, f) => ExtractDestPrefs(p)[f] = ""
    /\ \A f \in {"dietary", "accessibility"} :
          ~ Has(p.constraints, f) => ExtractConstraints(p)[f] = <<>>
    /\ \A f \in {"otherDietary", "otherAccessibility", "hardNos"} :
          ~ Has(p.constraints, f) => ExtractConstraints(p)[f] = ""

C6_AbsenceNeverThrows ==
    (result # NoResult /\ DatesWellFormed) =>
        /\ result.status = "returned"
        /\ \A i \in DOMAIN preferences : DefaultsSubstituted(preferences[i])
        /\ (BudgetSuppliers = {} /\ preferences # <<>>) =>
              Out.budget.minBudget = 0 /\ Out.budget.maxBudget = 0
        /\ DateSuppliers = {} =>
              Out.dates.earliestCommonStart = JsNull /\ Out.dates.latestCommonEnd = JsNull
        /\ (\A i \in DOMAIN preferences : ~ Has(preferences[i].destination_prefs, "vibes")) =>
              Out.destination.allVibes = <<>>

C6_Witness ==
    /\ Returns
    /\ Len(preferences) = 2
    /\ \A o \in DOMAIN preferences[1] : preferences[1][o] = NoFields
    /\ Has(preferences[2].dates, "earliestStart")
    /\ ~ Has(preferences[2].dates, "latestEnd")

(***************************************************************************)
(* C7: noDateOverlap is true exactly when at least one member supplied     *)
(* both dates and the latest of those members' earliest starts is strictly *)
(* later than the earliest of their latest ends.                           *)
(***************************************************************************)
C7_NoDateOverlapIff ==
    Returns =>
        (Out.conflicts.noDateOverlap <=>
            /\ DateSuppliers # {}
            /\ \E i \in DateSuppliers : \E j \in DateSuppliers :
                  DayOf(preferences[i].dates.earliestStart) > DayOf(preferences[j].dates.latestEnd))

C7_Witness ==
    /\ Returns
    /\ Cardinality(DateSuppliers) = 2
    /\ Out.conflicts.noDateOverlap
    /\ \A i \in DateSuppliers :
          DayOf(preferences[i].dates.earliestStart) <= DayOf(preferences[i].dates.latestEnd)

(***************************************************************************)
(* C8: noBudgetOverlap is true exactly when at least one member supplied   *)
(* budget data and the largest min exceeds the smallest max (an absent     *)
(* bound counting as 0); with no budget data at all it is never true.      *)
(***************************************************************************)
C8_NoBudgetOverlapIff ==
    Returns =>
        /\ Out.conflicts.noBudgetOverlap <=>
              /\ BudgetSuppliers # {}
              /\ \E i \in DOMAIN preferences : \E j \in DOMAIN preferences :
                    BoundOf(i, "min") > BoundOf(j, "max")
        /\ BudgetSuppliers = {} => ~ Out.conflicts.noBudgetOverlap

C8_Witness ==
    /\ Returns
    /\ Cardinality(BudgetSuppliers) = 2
    /\ Out.conflicts.noBudgetOverlap
    /\ \A i \in BudgetSuppliers : BoundOf(i, "min") <= BoundOf(i, "max")

(***************************************************************************)
(* C9: noCommonVibes is true exactly when the union of the members' vibes  *)
(* is non-empty and their intersection is empty.                           *)
(***************************************************************************)
C9_NoCommonVibesIff ==
    Returns =>
        (Out.conflicts.noCommonVibes <=> (VibeUnion # {} /\ VibeIntersection = {}))

C9_Witness ==
    /\ Returns
    /\ Cardinality(VibeSuppliers) = 2
    /\ Out.conflicts.noCommonVibes
    /\ Cardinality(VibeUnion) = 2

(***************************************************************************)
(* C10: details holds one fixed text per true flag and nothing else, in    *)
(* the order date, budget, vibes; its length is the number of true flags.  *)
(***************************************************************************)
C10_DetailsPerFlag ==
    Returns =>
        LET c == Out.conflicts
            n == (IF c.noDateOverlap THEN 1 ELSE 0) + (IF c.noBudgetOverlap THEN 1 ELSE 0)
                 + (IF c.noCommonVibes THEN 1 ELSE 0)
        IN  /\ Len(c.details) = n
            /\ c.details =
                  (IF c.noDateOverlap THEN <<"No overlapping dates between all members">>
                   ELSE <<>>)
                  \o (IF c.noBudgetOverlap THEN <<"Budget ranges don't overlap">> ELSE <<>>)
                  \o (IF c.noCommonVibes THEN <<"No common vibes selected by all members">>
                      ELSE <<>>)

C10_Witness ==
    /\ Returns
    /\ Out.conflicts.noDateOverlap
    /\ Out.conflicts.noBudgetOverlap
    /\ Out.conflicts.noCommonVibes
    /\ Len(Out.conflicts.details) = 3

(***************************************************************************)
(* C12: a malformed date is never an error: when a member's earliestStart  *)
(* or latestEnd is a non-empty text that denotes no date, the call still   *)
(* returns a profile.                                                      *)
(***************************************************************************)
MalformedDateMembers ==
    {i \in DOMAIN preferences : \E f \in {"earliestStart", "latestEnd"} :
        Stated(preferences[i].dates, f) /\ ~ IsIsoDay(preferences[i].dates[f])}

C12_MalformedDateReturns ==
    (result # NoResult /\ MalformedDateMembers # {}) => result.status = "returned"

(***************************************************************************)
(* C13: earliestCommonStart is the latest earliestStart and                *)
(* latestCommonEnd the earliest latestEnd of the members who supplied both *)
(* dates; a member missing either date is left out, and the list without   *)
(* such members has the same earliestCommonStart, latestCommonEnd,         *)
(* commonWindow and noDateOverlap.                                         *)
(***************************************************************************)
StartDay(i) == DayOf(preferences[i].dates.earliestStart)
EndDay(i)   == DayOf(preferences[i].dates.latestEnd)

\* the rows of the members who supplied both dates, in order
RECURSIVE SuppliersOnly(_)
SuppliersOnly(prefs) ==
    IF prefs = <<>> THEN <<>>
    ELSE LET p == prefs[1] IN
         IF Stated(p.dates, "earliestStart") /\ Stated(p.dates, "latestEnd")
         THEN <<p>> \o SuppliersOnly(Tail(prefs))
         ELSE SuppliersOnly(Tail(prefs))

C13_WindowOverSuppliers ==
    Returns =>
        /\ DateSuppliers # {} =>
              /\ \E i \in DateSuppliers :
                    /\ Out.dates.earliestCommonStart = preferences[i].dates.earliestStart
                    /\ \A j \in DateSuppliers : StartDay(j) <= StartDay(i)
              /\ \E i \in DateSuppliers :
                    /\ Out.dates.latestCommonEnd = preferences[i].dates.latestEnd
                    /\ \A j \in DateSuppliers : EndDay(j) >= EndDay(i)
        /\ LET alone == aggregatePreferences(SuppliersOnly(preferences)) IN
           /\ alone.status = "returned"
           /\ alone.value.dates.earliestCommonStart = Out.dates.earliestCommonStart
           /\ alone.value.dates.latestCommonEnd = Out.dates.latestCommonEnd
           /\ alone.value.dates.commonWindow = Out.dates.commonWindow
           /\ alone.value.conflicts.noDateOverlap = Out.conflicts.noDateOverlap

C13_Witness ==
    /\ Returns
    /\ Len(preferences) = 2
    /\ DateSuppliers = {2}
    /\ Has(preferences[1].dates, "earliestStart")
    /\ StartDay(2) > 1
    /\ Out.dates.earliestCommonStart = preferences[2].dates.earliestStart

(***************************************************************************)
(* C14: commonWindow is non-null exactly when some member supplied dates   *)
(* and earliestCommonStart <= latestCommonEnd, and is then the pair of     *)
(* the two; with no dates supplied the three date fields are null and      *)
(* noDateOverlap is false; with an infeasible window the two ends are      *)
(* non-null and commonWindow is null.                                      *)
(***************************************************************************)
C14_WindowIffFeasible ==
    Returns =>
        LET d == Out.dates
            feasible == /\ DateSuppliers # {}
                        /\ DayOf(d.earliestCommonStart) <= DayOf(d.latestCommonEnd)
        IN  /\ (d.commonWindow # NoFields) <=> feasible
            /\ feasible =>
                  d.commonWindow = [start |-> d.earliestCommonStart, end |-> d.latestCommonEnd]
            /\ DateSuppliers = {} =>
                  /\ d.earliestCommonStart = JsNull
                  /\ d.latestCommonEnd = JsNull
                  /\ d.commonWindow = NoFields
                  /\ ~ Out.conflicts.noDateOverlap
            /\ (DateSuppliers # {} /\ ~ feasible) =>
                  /\ d.earliestCommonStart # JsNull
                  /\ d.latestCommonEnd # JsNull
                  /\ d.commonWindow = NoFields

C14_Witness ==
    /\ Returns
    /\ Cardinality(DateSuppliers) = 2
    /\ Out.dates.earliestCommonStart # JsNull
    /\ Out.dates.latestCommonEnd # JsNull
    /\ Out.dates.commonWindow = NoFields

(***************************************************************************)
(* C15 as stated: when exactly one member supplied dates, noDateOverlap is *)
(* false and commonWindow is that member's own range, for every value of   *)
(* the member's two dates.                                                 *)
(***************************************************************************)
C15_Original ==
    (Returns /\ Cardinality(DateSuppliers) = 1) =>
        LET i == CHOOSE j \in DateSuppliers : TRUE IN
        /\ ~ Out.conflicts.noDateOverlap
        /\ Out.dates.commonWindow = [start |-> preferences[i].dates.earliestStart,
                                     end   |-> preferences[i].dates.latestEnd]

(***************************************************************************)
(* C15 amended: when exactly one member supplied dates, noDateOverlap is   *)
(* false and commonWindow is that member's own range for every value of    *)
(* the two dates with earliestStart <= latestEnd; when the member's        *)
(* earliestStart is later than its latestEnd, noDateOverlap is true and    *)
(* commonWindow is null.                                                   *)
(***************************************************************************)
C15_SingleSupplierWindow ==
    (Returns /\ Cardinality(DateSuppliers) = 1) =>
        LET i == CHOOSE j \in DateSuppliers : TRUE IN
        /\ StartDay(i) <= EndDay(i) =>
              /\ ~ Out.conflicts.noDateOverlap
              /\ Out.dates.commonWindow = [start |-> preferences[i].dates.earliestStart,
                                           end   |-> preferences[i].dates.latestEnd]
        /\ StartDay(i) > EndDay(i) =>
              /\ Out.conflicts.noDateOverlap
              /\ Out.dates.commonWindow = NoFields

C15_Witness ==
    /\ Returns
    /\ Len(preferences) = 2
    /\ Cardinality(DateSuppliers) = 1
    /\ \A i \in DateSuppliers : StartDay(i) = EndDay(i)
    /\ Out.dates.commonWindow # NoFields

(***************************************************************************)
(* C16 as stated: idealDurations is the duplicate-free collection of the   *)
(* non-empty idealDuration labels of all members, the label of a member    *)
(* without earliestStart or latestEnd included.                            *)
(***************************************************************************)
DurationLabels(members) ==
    {preferences[i].dates.idealDuration :
        i \in {j \in members : Stated(preferences[j].dates, "idealDuration")}}

C16_Original ==
    Returns =>
        /\ Elems(Out.dates.idealDurations) = DurationLabels(DOMAIN preferences)
        /\ Cardinality(Elems(Out.dates.idealDurations)) = Len(Out.dates.idealDurations)

(***************************************************************************)
(* C16 amended: idealDurations is the duplicate-free collection of the     *)
(* non-empty idealDuration labels of the members who supplied both         *)
(* earliestStart and latestEnd, whether or not the date windows overlap;   *)
(* the label of a member without earliestStart or latestEnd is left out.   *)
(***************************************************************************)
C16_DurationsOfSuppliers ==
    Returns =>
        /\ Elems(Out.dates.idealDurations) = DurationLabels(DateSuppliers)
        /\ Cardinality(Elems(Out.dates.idealDurations)) = Len(Out.dates.idealDurations)

C16_Witness ==
    /\ Returns
    /\ Cardinality(DateSuppliers) = 2
    /\ \A i \in DateSuppliers : Stated(preferences[i].dates, "idealDuration")
    /\ Out.conflicts.noDateOverlap
    /\ Len(Out.dates.idealDurations) = 1

(***************************************************************************)
(* C17: for every non-empty list minBudget is the largest min and          *)
(* maxBudget the smallest max over all members, an absent bound counting   *)
(* as 0; an infeasible band is reported inverted, as it is.                *)
(***************************************************************************)
C17_BandOverAllMembers ==
    (Returns /\ preferences # <<>>) =>
        /\ \E i \in DOMAIN preferences : Out.budget.minBudget = BoundOf(i, "min")
        /\ \A i \in DOMAIN preferences : Out.budget.minBudget >= BoundOf(i, "min")
        /\ \E i \in DOMAIN preferences : Out.budget.maxBudget = BoundOf(i, "max")
        /\ \A i \in DOMAIN preferences : Out.budget.maxBudget <= BoundOf(i, "max")

C17_Witness ==
    /\ Returns
    /\ Cardinality(BudgetSuppliers) = 2
    /\ \A i \in BudgetSuppliers : Has(preferences[i].budget, "min") /\ Has(preferences[i].budget, "max")
    /\ Out.budget.minBudget = MaxBudget
    /\ Out.budget.maxBudget = 1
    /\ Out.budget.minBudget > Out.budget.maxBudget

(***************************************************************************)
(* C18: a member without a budget counts as min = 0 and max = 0: in a      *)
(* group with such a member and a member whose min is above 0, maxBudget   *)
(* is 0 and noBudgetOverlap is true, also when the budgets that were       *)
(* supplied overlap.                                                       *)
(***************************************************************************)
C18_NoBudgetCountsAsZero ==
    (/\ Returns
     /\ \E i \in DOMAIN preferences : preferences[i].budget = NoFields
     /\ \E j \in DOMAIN preferences : BoundOf(j, "min") > 0) =>
        /\ Out.budget.maxBudget = 0
        /\ Out.conflicts.noBudgetOverlap

C18_Witness ==
    /\ Returns
    /\ Len(preferences) = 2
    /\ preferences[2].budget = NoFields
    /\ BoundOf(1, "min") > 0
    /\ BoundOf(1, "min") <= BoundOf(1, "max")
    /\ Out.budget.maxBudget = 0
    /\ Out.conflicts.noBudgetOverlap

(***************************************************************************)
(* C19: commonInclusions holds a cost category exactly when every member's *)
(* flag for it is true, an absent flag counting as false, in the order     *)
(* Flights, Accommodation, Food, Activities; one member without budget     *)
(* data makes it empty.                                                    *)
(***************************************************************************)
FlagOn(i, f) == Has(preferences[i].budget, f) /\ preferences[i].budget[f] = TRUE

C19_InclusionsOfAll ==
    (Returns /\ preferences # <<>>) =>
        /\ Out.budget.commonInclusions =
              (IF \A i \in DOMAIN preferences : FlagOn(i, "includeFlights")
               THEN <<"Flights">> ELSE <<>>)
              \o (IF \A i \in DOMAIN preferences : FlagOn(i, "includeAccommodation")
                  THEN <<"Accommodation">> ELSE <<>>)
              \o (IF \A i \in DOMAIN preferences : FlagOn(i, "includeFood")
                  THEN <<"Food">> ELSE <<>>)
              \o (IF \A i \in DOMAIN preferences : FlagOn(i, "includeActivities")
                  THEN <<"Activities">> ELSE <<>>)
        /\ (\E i \in DOMAIN preferences : preferences[i].budget = NoFields) =>
              Out.budget.commonInclusions = <<>>

C19_Witness ==
    /\ Returns
    /\ Len(preferences) = 2
    /\ preferences[1].budget # preferences[2].budget
    /\ Out.budget.commonInclusions = <<"Flights", "Food">>

(***************************************************************************)
(* C20: flexibilityLevels and popularScopes count every member once under  *)
(* the member's label, an absent flexibility counting as "prefer_under"    *)
(* and an absent scope as "either": for N members the counts of each tally *)
(* sum to N and no label has the count 0.                                  *)
(***************************************************************************)
FlexibilityOf(i) ==
    IF Stated(preferences[i].budget, "flexibility")
    THEN preferences[i].budget.flexibility ELSE "prefer_under"

ScopeOf(i) ==
    IF Stated(preferences[i].destination_prefs, "scope")
    THEN preferences[i].destination_prefs.scope ELSE "either"

RECURSIVE SumOver(_, _)
SumOver(rec, keys) ==
    IF keys = {} THEN 0
    ELSE LET k == CHOOSE x \in keys : TRUE IN rec[k] + SumOver(rec, keys \ {k})

C20_TalliesCountMembers ==
    (Returns /\ preferences # <<>>) =>
        LET flex   == Out.budget.flexibilityLevels
            scopes == Out.destination.popularScopes
        IN  /\ DOMAIN flex = {FlexibilityOf(i) : i \in DOMAIN preferences}
            /\ \A k \in DOMAIN flex :
                  /\ flex[k] = Cardinality({i \in DOMAIN preferences : FlexibilityOf(i) = k})
                  /\ flex[k] > 0
            /\ SumOver(flex, DOMAIN flex) = Len(preferences)
            /\ DOMAIN scopes = {ScopeOf(i) : i \in DOMAIN preferences}
            /\ \A k \in DOMAIN scopes :
                  /\ scopes[k] = Cardinality({i \in DOMAIN preferences : ScopeOf(i) = k})
                  /\ scopes[k] > 0
            /\ SumOver(scopes, DOMAIN scopes) = Len(preferences)

C20_Witness ==
    /\ Returns
    /\ Len(preferences) = 2
    /\ Has(preferences[1].budget, "flexibility")
    /\ ~ Has(preferences[2].budget, "flexibility")
    /\ Out.budget.flexibilityLevels = [prefer_under |-> 2]
    /\ Out.destination.popularScopes = [either |-> 2]

(***************************************************************************)
(* C21: for every non-empty list commonVibes is, as a set, the             *)
(* intersection of the members' vibe sets (a member without vibes giving   *)
(* the empty set) and allVibes is their union, without a duplicate.        *)
(***************************************************************************)
C21_IntersectionAndUnion ==
    (Returns /\ preferences # <<>>) =>
        /\ Elems(Out.destination.commonVibes) = VibeIntersection
        /\ Elems(Out.destination.allVibes) = VibeUnion
        /\ Cardinality(Elems(Out.destination.allVibes)) = Len(Out.destination.allVibes)

C21_Witness ==
    /\ Returns
    /\ Len(preferences) = 2
    /\ Cardinality(VibeSet(1)) = 2
    /\ Cardinality(VibeSet(2)) = 1
    /\ Len(Out.destination.commonVibes) = 1
    /\ Len(Out.destination.allVibes) = 2

(***************************************************************************)
(* C22: dietary is the duplicate-free union of the members' dietary tags   *)
(* and their non-empty otherDietary texts, each text one element, and      *)
(* accessibility the same over accessibility tags and otherAccessibility;  *)
(* an element is in the output exactly when some member supplied it.       *)
(***************************************************************************)
TagsOf(i, tags, other) ==
    LET c == preferences[i].constraints IN
    (IF Has(c, tags) THEN Elems(c[tags]) ELSE {})
    \cup (IF Stated(c, other) THEN {c[other]} ELSE {})

C22_ConstraintUnions ==
    Returns =>
        /\ Elems(Out.constraints.dietary) =
              UNION {TagsOf(i, "dietary", "otherDietary") : i \in DOMAIN preferences}
        /\ Cardinality(Elems(Out.constraints.dietary)) = Len(Out.constraints.dietary)
        /\ Elems(Out.constraints.accessibility) =
              UNION {TagsOf(i, "accessibility", "otherAccessibility") : i \in DOMAIN preferences}
        /\ Cardinality(Elems(Out.constraints.accessibility)) = Len(Out.constraints.accessibility)

C22_Witness ==
    /\ Returns
    /\ Len(preferences) = 2
    /\ Stated(preferences[1].constraints, "otherDietary")
    /\ Stated(preferences[2].constraints, "otherDietary")
    /\ Out.constraints.dietary = <<"Vegan", "Other", "No pork">>

(***************************************************************************)
(* C23: hardNos is the list of the members' non-empty hardNos texts,       *)
(* verbatim, one entry per member who supplied one, in member order and    *)
(* with repetitions kept; its length is the number of such members.        *)
(***************************************************************************)
HardNoMembers == {i \in DOMAIN preferences : Stated(preferences[i].constraints, "hardNos")}

C23_HardNosVerbatim ==
    Returns =>
        LET out == Out.constraints.hardNos
            \* the position in the output of the entry of member i
            Pos(i) == Cardinality({j \in HardNoMembers : j <= i})
        IN  /\ Len(out) = Cardinality(HardNoMembers)
            /\ \A i \in HardNoMembers : out[Pos(i)] = preferences[i].constraints.hardNos

C23_Witness ==
    /\ Returns
    /\ Cardinality(HardNoMembers) = 2
    /\ Out.constraints.hardNos = <<"No camping", "No camping">>

(***************************************************************************)
(* C24: a call of aggregatePreferences never modifies its input: the list  *)
(* and every member record (dates, budget, destination preferences,        *)
(* constraints) are after the call what they were before it.               *)
(***************************************************************************)
C24_InputUnchanged ==
    [][(result = NoResult /\ result' # NoResult) => preferences' = preferences]_vars

C24_Witness ==
    /\ Returns
    /\ Len(preferences) = 2
    /\ preferences[1].budget = NoFields
    /\ Has(preferences[2].budget, "min")
    /\ ~ Has(preferences[2].budget, "max")

(***************************************************************************)
(* C25: calls of aggregatePreferences from different requests do not       *)
(* interfere: however the requests and the insertion of rows interleave,   *)
(* the object a request's call returned holds the profile the function     *)
(* computes from that request's rows alone, and no two calls returned the  *)
(* same object, the empty list included.                                   *)
(***************************************************************************)
C25_NoInterference ==
    \A r \in Requests :
        requests[r].pc = "done" =>
            /\ heap[requests[r].ref] = aggregatePreferences(requests[r].snapshot).value
            /\ \A s \in Requests \ {r} :
                   requests[s].pc = "done" => requests[s].ref # requests[r].ref

C25_Witness ==
    /\ requests[1].pc = "done" /\ requests[2].pc = "done"
    /\ requests[1].snapshot = <<>> /\ requests[2].snapshot = <<>>
    /\ requests[1].ref > requests[2].ref
    /\ Len(preferences) > 0

(***************************************************************************)
(* C26: the aggregate does not depend on the order of the rows: for every  *)
(* permutation of the list the call ends the same way, and when it returns *)
(* earliestCommonStart, latestCommonEnd, commonWindow, minBudget,          *)
(* maxBudget, commonInclusions, both tallies, the four conflict flags and  *)
(* details are identical, and commonVibes, allVibes, dietary and           *)
(* accessibility hold the same elements.                                   *)
(***************************************************************************)
Permuted(f) == [i \in DOMAIN preferences |-> preferences[f[i]]]

SameUpToOrder(a, b) ==
    /\ a.dates.earliestCommonStart = b.dates.earliestCommonStart
    /\ a.dates.latestCommonEnd = b.dates.latestCommonEnd
    /\ a.dates.commonWindow = b.dates.commonWindow
    /\ a.budget.minBudget = b.budget.minBudget
    /\ a.budget.maxBudget = b.budget.maxBudget
    /\ a.budget.commonInclusions = b.budget.commonInclusions
    /\ a.budget.flexibilityLevels = b.budget.flexibilityLevels
    /\ a.destination.popularScopes = b.destination.popularScopes
    /\ a.conflicts = b.conflicts
    /\ Elems(a.destination.commonVibes) = Elems(b.destination.commonVibes)
    /\ Elems(a.destination.allVibes) = Elems(b.destination.allVibes)
    /\ Elems(a.constraints.dietary) = Elems(b.constraints.dietary)
    /\ Elems(a.constraints.accessibility) = Elems(b.constraints.accessibility)

C26_OrderIrrelevant ==
    result # NoResult =>
        \A f \in Permutations(DOMAIN preferences) :
            LET other == aggregatePreferences(Permuted(f))
            IN  /\ other.status = result.status
                /\ Returns => SameUpToOrder(other.value, Out)

\* two different members, the second one closing the window earlier than
\* the first and naming the common vibes in another order
C26_Witness ==
    /\ Returns
    /\ Len(preferences) = 2
    /\ DateSuppliers = {1, 2}
    /\ Out.dates.latestCommonEnd = preferences[2].dates.latestEnd
    /\ Out.dates.latestCommonEnd # preferences[1].dates.latestEnd
    /\ Len(Out.destination.allVibes) = 2
    /\ Out.destination.allVibes # aggregatePreferences(<<preferences[2], preferences[1]>>).value.destination.allVibes

(***************************************************************************)
(* C27: conflict flags are monotone in the list: when the call returned    *)
(* for the list without its last member, and the last member's dates are   *)
(* valid, the call returns for the whole list and each of noDateOverlap,   *)
(* noBudgetOverlap and noCommonVibes that was true without the last member *)
(* is true with that member.                                               *)
(***************************************************************************)
Before == aggregatePreferences(SubSeq(preferences, 1, Len(preferences) - 1))

LastHasValidDates ==
    LET d == preferences[Len(preferences)].dates
    IN  \A f \in {"earliestStart", "latestEnd"} : Stated(d, f) => IsIsoDay(d[f])

C27_FlagsMonotone ==
    (/\ result # NoResult
     /\ Len(preferences) > 0
     /\ LastHasValidDates
     /\ Before.status = "returned")
    => /\ Returns
       /\ \A flag \in {"noDateOverlap", "noBudgetOverlap", "noCommonVibes"} :
              Before.value.conflicts[flag] => Out.conflicts[flag]

\* a third member with valid dates joins two members who disagree on dates,
\* budget and vibes
C27_Witness ==
    /\ Returns
    /\ Len(preferences) = 3
    /\ DateSuppliers = {1, 2, 3}
    /\ LastHasValidDates
    /\ Before.status = "returned"
    /\ \A flag \in {"noDateOverlap", "noBudgetOverlap", "noCommonVibes"} :
           Before.value.conflicts[flag] /\ Out.conflicts[flag]

(***************************************************************************)
(* C28: a single member whose own ranges are well-formed (the two dates,   *)
(* when both are stated, denote dates with earliestStart <= latestEnd; the *)
(* budget minimum is at most the maximum, an absent bound counting as 0)   *)
(* is never reported as a conflict: the call returns, the three flags and  *)
(* hasConflicts are false and details is empty, whatever the vibes.        *)
(***************************************************************************)
OwnRangesWellFormed(i) ==
    /\ i \in DateSuppliers =>
          /\ IsIsoDay(preferences[i].dates.earliestStart)
          /\ IsIsoDay(preferences[i].dates.latestEnd)
          /\ DayOf(preferences[i].dates.earliestStart) <= DayOf(preferences[i].dates.latestEnd)
    /\ BoundOf(i, "min") <= BoundOf(i, "max")

C28_SingleMemberNoConflict ==
    (result # NoResult /\ Len(preferences) = 1 /\ OwnRangesWellFormed(1))
    => /\ Returns
       /\ ~ Out.conflicts.hasConflicts
       /\ ~ Out.conflicts.noDateOverlap
       /\ ~ Out.conflicts.noBudgetOverlap
       /\ ~ Out.conflicts.noCommonVibes
       /\ Out.conflicts.details = <<>>

C28_Witness ==
    /\ Returns
    /\ Len(preferences) = 1
    /\ OwnRangesWellFormed(1)
    /\ DateSuppliers = {1}
    /\ Has(preferences[1].budget, "min") /\ Has(preferences[1].budget, "max")
    /\ VibeSet(1) # {}
    /\ ~ Out.conflicts.hasConflicts

(***************************************************************************)
(* C29: for every profile the call returns, the Date Window panel agrees   *)
(* with the conflict report: it shows "Overlap Found" iff commonWindow is  *)
(* non-null, the "No overlap between all members" warning iff              *)
(* noDateOverlap is true, and "No date preferences submitted yet" iff no   *)
(* member supplied dates.                                                  *)
(***************************************************************************)
C29_DatePanelAgrees ==
    Returns =>
        /\ DateWindowPanel(Out) = OverlapFound <=> Out.dates.commonWindow # NoFields
        /\ DateWindowPanel(Out) = NoOverlapShown <=> Out.conflicts.noDateOverlap
        /\ DateWindowPanel(Out) = NoDatesYet <=> DateSuppliers = {}

\* members supplied dates that overlap, and the panel shows the window
C29_Witness ==
    /\ Returns
    /\ Len(preferences) = 2
    /\ DateSuppliers = {1, 2}
    /\ ~ Out.conflicts.noDateOverlap
    /\ DateWindowPanel(Out) = OverlapFound

(***************************************************************************)
(* C30: for every profile the call returns, the vibes panel never shows    *)
(* "No vibes selected by all members, but some overlap exists": whenever   *)
(* allVibes is non-empty and commonVibes is empty, noCommonVibes is true.  *)
(***************************************************************************)
C30_InfoBranchDead ==
    Returns =>
        /\ VibesPanel(Out) # SomeOverlapInfo
        /\ (Len(Out.destination.allVibes) > 0 /\ Len(Out.destination.commonVibes) = 0)
              => Out.conflicts.noCommonVibes

\* vibes were chosen, none by everybody: the guard of the branch is evaluated
C30_Witness ==
    /\ Returns
    /\ Len(Out.destination.allVibes) > 0
    /\ Len(Out.destination.commonVibes) = 0
    /\ Out.conflicts.noCommonVibes
    /\ VibesPanel(Out) = AllSelectedOnly

====
